---------------------------- MODULE Spec2Model ----------------------------
(***************************************************************************)
(* A model of package concurrency (plan42-ai/concurrency).                 *)
(*                                                                         *)
(* ContextGroup (context.go) is modelled with its sync.WaitGroup, its      *)
(* sync.Once, its shared cancellable context, its shutdown channel and     *)
(* the background NotifyShutdown goroutine.  Client goroutines call the    *)
(* public methods; methods that read the shutdown channel and then act     *)
(* (Add, WaitContext, Close) take one step per access so that every        *)
(* interleaving with the other goroutines is explored.  Nothing in the     *)
(* package recovers from a panic, so a panic in any goroutine ends the     *)
(* program: no step follows it.                                            *)
(*                                                                         *)
(* Backoff and TokenBucket have their own state and their own              *)
(* specifications (BackoffSpec, BucketSpec).  A Backoff is driven by its   *)
(* single owner; time.Duration keeps its two's complement width, scaled    *)
(* down to DurBits; its timer is modelled with its channel, for both       *)
(* kinds of timer channel a Go build can have.  A TokenBucket is shared    *)
(* by the client goroutines, one step per phase of Take under the mutex,   *)
(* with a clock that advances between any two steps.                       *)
(***************************************************************************)
EXTENDS Integers, FiniteSets, Sequences, TLC

(* ------------------------------ bounds -------------------------------- *)

\* number of client goroutines calling into one ContextGroup
NumProcs == 2
\* largest counter value explored
MaxCount == 2
Procs == 1..NumProcs
\* the deltas passed to Add: every non-zero value that can stay in range
Deltas == ((0 - MaxCount)..MaxCount) \ {0}

(* ------------------------------ state --------------------------------- *)

VARIABLES
    counter,        \* c.wg: the WaitGroup counter
    waiters,        \* c.wg: goroutines registered in wg.Wait
    sema,           \* c.wg: semaphore permits released to waiters
    ctxDone,        \* c.ctx: TRUE once the shared context is cancelled
    initDone,       \* c.init: TRUE once the sync.Once has run
    shutdown,       \* c.shutdown: "open" or "closed"
    tracker,        \* position of the NotifyShutdown goroutine
    pc,             \* position of each client goroutine
    op,             \* the method each client is in, or returned from last
    delta,          \* the argument of the client's Add
    waitCtx,        \* state of the context passed to the client's WaitContext
    ret,            \* the outcome of the client's last call
    cancelFires,    \* history: transitions of c.ctx from live to done
    spawns,         \* history: NotifyShutdown goroutines started
    closes,         \* history: close(done) executions
    zeroSeen,       \* history: the counter was zero at or after the Once ran
    initAtPositive, \* history: the Once ran while the counter was positive
    crash           \* "none", or the panic that ended the program

\* a Backoff (owned by one goroutine: the type is not safe for concurrent use)
VARIABLES
    min,            \* b.min
    max,            \* b.max
    current,        \* b.current
    timer,          \* b.timer: "nil", "armed", "fired" or "stopped"
    timerDur,       \* the duration the timer was last armed with
    timerC,         \* b.timer.C: "empty", or the tick it holds: "fresh" or "stale"
    asyncTimerChan, \* TRUE when the build has buffered timer channels (before Go 1.23)
    bpc,            \* position of the owner: "idle" or "select"
    bctx,           \* state of the context passed to the last WaitContext
    bret,           \* the outcome of the owner's last call
    bop,            \* history: the last method called
    prevCurrent,    \* history: b.current when that method was called
    recv            \* history: the tick the last select received, if any

\* a TokenBucket shared by the client goroutines
VARIABLES
    tokens,         \* tb.tokens
    maxTokens,      \* tb.maxTokens
    refillRate,     \* tb.refillRate
    lastRefill,     \* tb.lastRefill
    clock,          \* the monotonic clock read by time.Now()
    mux,            \* tb.mux: 0 when unlocked, else the goroutine holding it
    tpc,            \* position of each goroutine in Take
    amount,         \* the argument of the goroutine's Take
    took,           \* the result of the Take that returned last
    taker,          \* history: the goroutine whose Take returned last, or 0
    refilled,       \* history: tb.tokens as left by the replenishment of the Take in progress
    takes,          \* history: Take calls started
    withdrawn,      \* history: total of the amounts of the successful Takes
    replenished     \* history: total of the replenishments computed, before capping

wgVars == <<counter, waiters, sema>>
groupVars == <<counter, waiters, sema, ctxDone, initDone, shutdown, tracker, crash>>
procVars == <<pc, op, delta, waitCtx, ret>>
histVars == <<cancelFires, spawns, closes, zeroSeen, initAtPositive>>
backoffVars == <<min, max, current, timer, timerDur, timerC, asyncTimerChan,
                 bpc, bctx, bret, bop, prevCurrent, recv>>
bucketVars == <<tokens, maxTokens, refillRate, lastRefill, clock, mux,
                tpc, amount, took, taker, refilled, takes, withdrawn, replenished>>
\* what the methods of a ContextGroup leave alone
otherVars == <<backoffVars, bucketVars>>
vars == <<counter, waiters, sema, ctxDone, initDone, shutdown, tracker,
          crash, pc, op, delta, waitCtx, ret,
          cancelFires, spawns, closes, zeroSeen, initAtPositive,
          backoffVars, bucketVars>>

\* the zero TokenBucket: no NewTokenBucket call has been made
NoTokenBucket ==
    /\ tokens = 0
    /\ maxTokens = 0
    /\ refillRate = 0
    /\ lastRefill = 0
    /\ clock = 0
    /\ mux = 0
    /\ tpc = [p \in Procs |-> "idle"]
    /\ amount = [p \in Procs |-> 0]
    /\ took = "none"
    /\ taker = 0
    /\ refilled = [p \in Procs |-> 0]
    /\ takes = 0
    /\ withdrawn = 0
    /\ replenished = 0

\* the zero Backoff: no NewBackoff call has been made
NoBackoff ==
    /\ min = 0
    /\ max = 0
    /\ current = 0
    /\ timer = "nil"
    /\ timerDur = 0
    /\ timerC = "empty"
    /\ asyncTimerChan = FALSE
    /\ bpc = "idle"
    /\ bctx = "none"
    /\ bret = "none"
    /\ bop = "none"
    /\ prevCurrent = 0
    /\ recv = "none"

\* NewContextGroup: a live context, a zero WaitGroup, a fresh Once, an open channel
NewContextGroup ==
    /\ counter = 0
    /\ waiters = 0
    /\ sema = 0
    /\ ctxDone = FALSE
    /\ initDone = FALSE
    /\ shutdown = "open"
    /\ tracker = "none"
    /\ pc = [p \in Procs |-> "idle"]
    /\ op = [p \in Procs |-> "none"]
    /\ delta = [p \in Procs |-> 0]
    /\ waitCtx = [p \in Procs |-> "none"]
    /\ ret = [p \in Procs |-> "none"]
    /\ cancelFires = 0
    /\ spawns = 0
    /\ closes = 0
    /\ zeroSeen = FALSE
    /\ initAtPositive = FALSE
    /\ crash = "none"

\* the program under study creates one ContextGroup and no other object
Init == NewContextGroup /\ NoBackoff /\ NoTokenBucket


(* --------------------------- sync.WaitGroup --------------------------- *)

\* wg.Add(d): the counter is updated atomically first; a negative result
\* panics with the update in place, a zero result with registered waiters
\* resets the waiter count and releases one semaphore permit per waiter.
\* No caller in the package recovers: a panic ends the program.
WgAdd(d) ==
    LET v == counter + d IN
    IF v < 0
        THEN [counter |-> v, waiters |-> waiters, sema |-> sema, panic |-> "sync: negative WaitGroup counter"]
    ELSE IF waiters # 0 /\ d > 0 /\ v = d
        THEN [counter |-> v, waiters |-> waiters, sema |-> sema, panic |-> "sync: WaitGroup misuse"]
    ELSE IF v > 0 \/ waiters = 0
        THEN [counter |-> v, waiters |-> waiters, sema |-> sema, panic |-> "none"]
    ELSE [counter |-> 0, waiters |-> 0, sema |-> sema + waiters, panic |-> "none"]

\* the part of the counter range that is explored
InRange(v) == v <= MaxCount

\* the outcome r of c.wg.Add / c.wg.Done takes effect and client p returns
ApplyWgAdd(p, r) ==
    /\ InRange(r.counter)
    /\ counter' = r.counter
    /\ waiters' = r.waiters
    /\ sema' = r.sema
    /\ ret' = [ret EXCEPT ![p] = IF r.panic = "none" THEN "ok" ELSE "panic"]
    /\ crash' = r.panic
    /\ zeroSeen' = (zeroSeen \/ (initDone /\ r.counter = 0))

\* the program runs until some goroutine panics
Running == crash = "none"

\* the panic raised by Add on a closed shutdown channel
AddAfterShutdown == "ContextGroup: Add called after shutdown is complete."

\* Add(d) run without interruption from the current state
AddEffect(d) ==
    IF shutdown = "closed"
        THEN [counter |-> counter, waiters |-> waiters, sema |-> sema,
              panic |-> AddAfterShutdown]
        ELSE WgAdd(d)

\* Done() run from the current state
DoneEffect == WgAdd(0 - 1)

(* ---------------------------- ContextGroup ---------------------------- *)

\* Add, first step: the select on c.shutdown
Add(p) ==
    /\ Running
    /\ UNCHANGED otherVars
    /\ pc[p] = "idle"
    /\ \E d \in Deltas :
        IF shutdown = "closed"
           THEN /\ ret' = [ret EXCEPT ![p] = "panic"]
                /\ crash' = AddAfterShutdown
                /\ delta' = [delta EXCEPT ![p] = d]
                /\ UNCHANGED pc
           ELSE /\ ret' = [ret EXCEPT ![p] = "running"]
                /\ pc' = [pc EXCEPT ![p] = "addWg"]
                /\ delta' = [delta EXCEPT ![p] = d]
                /\ UNCHANGED crash
    /\ op' = [op EXCEPT ![p] = "Add"]
    /\ UNCHANGED <<wgVars, ctxDone, initDone, shutdown, tracker, histVars, waitCtx>>

\* Add, second step: the default branch, c.wg.Add(delta)
AddWgAdd(p) ==
    /\ Running
    /\ UNCHANGED otherVars
    /\ pc[p] = "addWg"
    /\ ApplyWgAdd(p, WgAdd(delta[p]))
    /\ pc' = [pc EXCEPT ![p] = "idle"]
    /\ delta' = [delta EXCEPT ![p] = 0]
    /\ UNCHANGED <<ctxDone, initDone, shutdown, tracker, op, waitCtx,
                   cancelFires, spawns, closes, initAtPositive>>

\* Done: c.wg.Done(), that is c.wg.Add(-1), with no look at c.shutdown
Done(p) ==
    /\ Running
    /\ UNCHANGED otherVars
    /\ pc[p] = "idle"
    /\ ApplyWgAdd(p, DoneEffect)
    /\ op' = [op EXCEPT ![p] = "Done"]
    /\ UNCHANGED <<delta, waitCtx>>
    /\ UNCHANGED <<ctxDone, initDone, shutdown, tracker, pc,
                   cancelFires, spawns, closes, initAtPositive>>

\* c.cancel(): the CancelFunc of context.WithCancel; only its first call acts
CancelCtx ==
    /\ ctxDone' = TRUE
    /\ cancelFires' = IF ctxDone THEN cancelFires ELSE cancelFires + 1

\* mutant of Cancel: the context is cancelled by closing a channel directly,
\* so a second cancellation panics
CancelClosesTwice(p) ==
    /\ Running
    /\ UNCHANGED otherVars
    /\ pc[p] = "idle"
    /\ CancelCtx
    /\ crash' = IF ctxDone THEN "close of closed channel" ELSE crash
    /\ op' = [op EXCEPT ![p] = "Cancel"]
    /\ ret' = [ret EXCEPT ![p] = IF ctxDone THEN "panic" ELSE "ok"]
    /\ UNCHANGED <<delta, waitCtx>>
    /\ UNCHANGED <<counter, waiters, sema, initDone, shutdown, tracker, pc,
                   spawns, closes, zeroSeen, initAtPositive>>

\* mutant of Cancel: cancelling also closes the shutdown channel
CancelAlsoCloses(p) ==
    /\ Running
    /\ UNCHANGED otherVars
    /\ pc[p] = "idle"
    /\ CancelCtx
    /\ shutdown' = "closed"
    /\ op' = [op EXCEPT ![p] = "Cancel"]
    /\ ret' = [ret EXCEPT ![p] = "ok"]
    /\ UNCHANGED <<delta, waitCtx>>
    /\ UNCHANGED <<counter, waiters, sema, initDone, tracker, crash, pc,
                   spawns, closes, zeroSeen, initAtPositive>>

\* Cancel
Cancel(p) ==
    /\ Running
    /\ UNCHANGED otherVars
    /\ pc[p] = "idle"
    /\ CancelCtx
    /\ op' = [op EXCEPT ![p] = "Cancel"]
    /\ ret' = [ret EXCEPT ![p] = "ok"]
    /\ UNCHANGED <<delta, waitCtx>>
    /\ UNCHANGED <<counter, waiters, sema, initDone, shutdown, tracker, crash, pc,
                   spawns, closes, zeroSeen, initAtPositive>>

\* mutant of Init: no sync.Once, every call starts a NotifyShutdown goroutine
InitWithoutOnce(p) ==
    /\ Running
    /\ UNCHANGED otherVars
    /\ pc[p] = "idle"
    /\ initDone' = TRUE
    /\ tracker' = "spawned"
    /\ spawns' = spawns + 1
    /\ zeroSeen' = (counter = 0)
    /\ initAtPositive' = (counter > 0)
    /\ op' = [op EXCEPT ![p] = "Init"]
    /\ ret' = [ret EXCEPT ![p] = "ok"]
    /\ UNCHANGED <<delta, waitCtx>>
    /\ UNCHANGED <<counter, waiters, sema, ctxDone, shutdown, crash, pc,
                   cancelFires, closes>>

\* mutant of Init: the guard is kept per caller instead of in the one shared
\* sync.Once, so each goroutine's first call starts a NotifyShutdown goroutine
InitOncePerCaller(p) ==
    /\ Running
    /\ UNCHANGED otherVars
    /\ pc[p] = "idle"
    /\ IF op[p] = "Init"
          THEN UNCHANGED <<initDone, tracker, spawns, zeroSeen, initAtPositive>>
          ELSE /\ initDone' = TRUE
               /\ tracker' = "spawned"
               /\ spawns' = spawns + 1
               /\ zeroSeen' = (counter = 0)
               /\ initAtPositive' = (counter > 0)
    /\ op' = [op EXCEPT ![p] = "Init"]
    /\ ret' = [ret EXCEPT ![p] = "ok"]
    /\ UNCHANGED <<delta, waitCtx>>
    /\ UNCHANGED <<counter, waiters, sema, ctxDone, shutdown, crash, pc,
                   cancelFires, closes>>

\* Init: c.init.Do(func() { go NotifyShutdown(c.shutdown, &c.wg) })
InitOnce(p) ==
    /\ Running
    /\ UNCHANGED otherVars
    /\ pc[p] = "idle"
    /\ IF initDone
          THEN UNCHANGED <<initDone, tracker, spawns, zeroSeen, initAtPositive>>
          ELSE /\ initDone' = TRUE
               /\ tracker' = "spawned"
               /\ spawns' = spawns + 1
               /\ zeroSeen' = (counter = 0)
               /\ initAtPositive' = (counter > 0)
    /\ op' = [op EXCEPT ![p] = "Init"]
    /\ ret' = [ret EXCEPT ![p] = "ok"]
    /\ UNCHANGED <<delta, waitCtx>>
    /\ UNCHANGED <<counter, waiters, sema, ctxDone, shutdown, crash, pc,
                   cancelFires, closes>>

\* entry of WaitContext with a context in state k
EnterSelect(p, name, k) ==
    /\ pc' = [pc EXCEPT ![p] = "select"]
    /\ op' = [op EXCEPT ![p] = name]
    /\ waitCtx' = [waitCtx EXCEPT ![p] = k]
    /\ ret' = [ret EXCEPT ![p] = "running"]
    /\ UNCHANGED <<groupVars, histVars, delta>>

\* Wait: c.WaitContext(context.Background()), the error dropped
Wait(p) ==
    /\ Running
    /\ UNCHANGED otherVars
    /\ pc[p] = "idle"
    /\ EnterSelect(p, "Wait", "background")

\* WaitContext(ctx), ctx live, already cancelled or already past its deadline
WaitContext(p) ==
    /\ Running
    /\ UNCHANGED otherVars
    /\ pc[p] = "idle"
    /\ \E k \in {"live", "canceled", "expired"} : EnterSelect(p, "WaitContext", k)

\* WaitTimeout(d): context.WithTimeout(Background, d), expired at once for d <= 0
WaitTimeout(p) ==
    /\ Running
    /\ UNCHANGED otherVars
    /\ pc[p] = "idle"
    /\ \E d \in {0, 1} :
        EnterSelect(p, "WaitTimeout", IF d <= 0 THEN "expired" ELSE "timer")

\* the caller's context completes while the call is blocked in the select:
\* its deadline passes ("timedout") or, for a cancellable one, it is cancelled
CtxDone(p) ==
    /\ Running
    /\ UNCHANGED otherVars
    /\ pc[p] = "select"
    /\ \/ /\ waitCtx[p] \in {"live", "timer"}
          /\ waitCtx' = [waitCtx EXCEPT ![p] = "timedout"]
       \/ /\ waitCtx[p] = "live"
          /\ waitCtx' = [waitCtx EXCEPT ![p] = "canceled"]
    /\ UNCHANGED <<groupVars, histVars, pc, op, delta, ret>>

\* ctx.Err() of a completed context
CtxErr(k) == IF k = "canceled" THEN "Canceled" ELSE "DeadlineExceeded"

\* mutant of the select: the ctx.Done() case returns nil instead of ctx.Err()
WaitContextSelectDropsErr(p) ==
    /\ Running
    /\ UNCHANGED otherVars
    /\ pc[p] = "select"
    /\ \/ /\ shutdown = "closed"
          /\ ret' = [ret EXCEPT ![p] = "nil"]
       \/ /\ waitCtx[p] \in {"canceled", "expired", "timedout"}
          /\ ret' = [ret EXCEPT ![p] = "nil"]
    /\ pc' = [pc EXCEPT ![p] = "idle"]
    /\ waitCtx' = [waitCtx EXCEPT ![p] = "none"]
    /\ UNCHANGED <<groupVars, histVars, op, delta>>

\* the select of WaitContext: any ready case may be taken
WaitContextSelect(p) ==
    /\ Running
    /\ UNCHANGED otherVars
    /\ pc[p] = "select"
    /\ \/ /\ shutdown = "closed"
          /\ ret' = [ret EXCEPT ![p] = "nil"]
       \/ /\ waitCtx[p] \in {"canceled", "expired", "timedout"}
          /\ ret' = [ret EXCEPT ![p] = CtxErr(waitCtx[p])]
    /\ pc' = [pc EXCEPT ![p] = "idle"]
    /\ waitCtx' = [waitCtx EXCEPT ![p] = "none"]
    /\ UNCHANGED <<groupVars, histVars, op, delta>>

\* mutant of Close: the c.cancel() call is missing
CloseWithoutCancel(p) ==
    /\ Running
    /\ UNCHANGED otherVars
    /\ pc[p] = "idle"
    /\ pc' = [pc EXCEPT ![p] = "closeRecv"]
    /\ op' = [op EXCEPT ![p] = "Close"]
    /\ ret' = [ret EXCEPT ![p] = "running"]
    /\ UNCHANGED <<delta, waitCtx, groupVars, histVars>>

\* Close, first step: c.cancel()
Close(p) ==
    /\ Running
    /\ UNCHANGED otherVars
    /\ pc[p] = "idle"
    /\ CancelCtx
    /\ pc' = [pc EXCEPT ![p] = "closeRecv"]
    /\ op' = [op EXCEPT ![p] = "Close"]
    /\ ret' = [ret EXCEPT ![p] = "running"]
    /\ UNCHANGED <<delta, waitCtx>>
    /\ UNCHANGED <<counter, waiters, sema, initDone, shutdown, tracker, crash,
                   spawns, closes, zeroSeen, initAtPositive>>

\* mutant of the receive in Close: Close waits for a zero counter (wg.Wait)
\* instead of the shutdown channel
CloseWaitsOnCounter(p) ==
    /\ Running
    /\ UNCHANGED otherVars
    /\ pc[p] = "closeRecv"
    /\ counter = 0
    /\ pc' = [pc EXCEPT ![p] = "idle"]
    /\ ret' = [ret EXCEPT ![p] = "nil"]
    /\ UNCHANGED <<groupVars, histVars, op, delta, waitCtx>>

\* Close, second step: <-c.shutdown, then return nil
CloseRecv(p) ==
    /\ Running
    /\ UNCHANGED otherVars
    /\ pc[p] = "closeRecv"
    /\ shutdown = "closed"
    /\ pc' = [pc EXCEPT ![p] = "idle"]
    /\ ret' = [ret EXCEPT ![p] = "nil"]
    /\ UNCHANGED <<groupVars, histVars, op, delta, waitCtx>>

(* --------------------------- NotifyShutdown --------------------------- *)

\* mutant of NotifyShutdown: the wg.Wait() is missing, done is closed at once
NotifyShutdownNoWait ==
    /\ Running
    /\ UNCHANGED otherVars
    /\ tracker = "spawned"
    /\ tracker' = "returned"
    /\ UNCHANGED <<counter, waiters, sema, ctxDone, initDone, shutdown, crash,
                   procVars, histVars>>

\* wg.Wait() entered: return at once on a zero counter, else register
NotifyShutdownWait ==
    /\ Running
    /\ UNCHANGED otherVars
    /\ tracker = "spawned"
    /\ IF counter = 0
          THEN /\ tracker' = "returned"
               /\ UNCHANGED waiters
          ELSE /\ tracker' = "waiting"
               /\ waiters' = waiters + 1
    /\ UNCHANGED <<counter, sema, ctxDone, initDone, shutdown, crash, procVars, histVars>>

\* wg.Wait() woken by the semaphore: a WaitGroup whose state is no longer
\* zero was reused before this Wait returned, and Wait panics
NotifyShutdownWake ==
    /\ Running
    /\ UNCHANGED otherVars
    /\ tracker = "waiting"
    /\ sema > 0
    /\ sema' = sema - 1
    /\ IF counter # 0 \/ waiters # 0
          THEN /\ tracker' = "panicked"
               /\ crash' = "sync: WaitGroup is reused before previous Wait has returned"
          ELSE /\ tracker' = "returned"
               /\ UNCHANGED crash
    /\ UNCHANGED <<counter, waiters, ctxDone, initDone, shutdown, procVars, histVars>>

\* close(done)
NotifyShutdownClose ==
    /\ Running
    /\ UNCHANGED otherVars
    /\ tracker = "returned"
    /\ shutdown' = "closed"
    /\ closes' = closes + 1
    /\ tracker' = "exited"
    /\ UNCHANGED <<counter, waiters, sema, ctxDone, initDone, crash, procVars,
                   cancelFires, spawns, zeroSeen, initAtPositive>>

(* --------------------------- specification ---------------------------- *)

Next ==
    \/ \E p \in Procs : Add(p)
    \/ \E p \in Procs : AddWgAdd(p)
    \/ \E p \in Procs : Done(p)
    \/ \E p \in Procs : Cancel(p)
    \/ \E p \in Procs : InitOnce(p)
    \/ \E p \in Procs : Wait(p)
    \/ \E p \in Procs : WaitContext(p)
    \/ \E p \in Procs : WaitTimeout(p)
    \/ \E p \in Procs : CtxDone(p)
    \/ \E p \in Procs : WaitContextSelect(p)
    \/ \E p \in Procs : Close(p)
    \/ \E p \in Procs : CloseRecv(p)
    \/ NotifyShutdownWait
    \/ NotifyShutdownWake
    \/ NotifyShutdownClose

Spec == Init /\ [][Next]_vars

\* The Go scheduler runs every runnable goroutine: the NotifyShutdown
\* goroutine takes its next step, a call past its entry completes, and a
\* select or receive with a ready case returns.  Nothing obliges a client
\* to start a new call, nor a caller's context to complete.
Fairness ==
    /\ WF_vars(NotifyShutdownWait)
    /\ WF_vars(NotifyShutdownWake)
    /\ WF_vars(NotifyShutdownClose)
    /\ \A p \in Procs : WF_vars(AddWgAdd(p))
    /\ \A p \in Procs : WF_vars(WaitContextSelect(p))
    /\ \A p \in Procs : WF_vars(CloseRecv(p))

FairSpec == Spec /\ Fairness

TypeOK ==
    /\ counter \in (0 - MaxCount)..MaxCount
    /\ waiters \in 0..1
    /\ sema \in 0..1
    /\ ctxDone \in BOOLEAN
    /\ initDone \in BOOLEAN
    /\ shutdown \in {"open", "closed"}
    /\ tracker \in {"none", "spawned", "waiting", "returned", "exited", "panicked"}
    /\ pc \in [Procs -> {"idle", "addWg", "select", "closeRecv"}]
    /\ op \in [Procs -> {"none", "Add", "Done", "Cancel", "Init", "Wait",
                         "WaitContext", "WaitTimeout", "Close"}]
    /\ delta \in [Procs -> Deltas \cup {0}]
    /\ waitCtx \in [Procs -> {"none", "background", "live", "timer",
                              "canceled", "expired", "timedout"}]
    /\ ret \in [Procs -> {"none", "running", "ok", "nil", "Canceled",
                          "DeadlineExceeded", "panic"}]
    /\ cancelFires \in 0..1
    /\ spawns \in 0..1
    /\ closes \in 0..1
    /\ zeroSeen \in BOOLEAN
    /\ initAtPositive \in BOOLEAN
    /\ min \in Int /\ max \in Int /\ current \in Int
    /\ timer \in {"nil", "armed", "fired", "stopped"}
    /\ timerDur \in Nat
    /\ timerC \in {"empty", "fresh", "stale"}
    /\ asyncTimerChan \in BOOLEAN
    /\ bpc \in {"idle", "select"}
    /\ bctx \in {"none", "background", "live", "canceled", "expired"}
    /\ bret \in {"none", "nil", "Canceled", "DeadlineExceeded", "panic"}
    /\ bop \in {"none", "Backoff", "Recover", "WaitContext"}
    /\ prevCurrent \in Int
    /\ recv \in {"none", "fresh", "stale"}
    /\ tokens \in Int /\ maxTokens \in Nat /\ refillRate \in Nat
    /\ lastRefill \in Nat /\ clock \in Nat /\ lastRefill <= clock
    /\ mux \in {0} \cup Procs
    /\ tpc \in [Procs -> {"idle", "locked", "check", "withdraw"}]
    /\ amount \in [Procs -> Int]
    /\ took \in {"none", "true", "false"}
    /\ taker \in {0} \cup Procs
    /\ refilled \in [Procs -> Int]
    /\ takes \in Nat /\ withdrawn \in Int /\ replenished \in Nat


(* ------------------------------ Backoff ------------------------------- *)

\* time.Duration is a signed integer of DurBits bits (64 in the program)
DurBits == 4
DurMod == 2 ^ DurBits
MaxDuration == DurMod \div 2 - 1
\* the intervals passed to NewBackoff
Durations == 0..MaxDuration

\* the value of a Duration expression: two's complement wrap-around
WrapDuration(v) ==
    LET m == v % DurMod
    IN  IF m > MaxDuration THEN m - DurMod ELSE m

\* Go's integer division truncates toward zero
HalfDuration(c) == IF c >= 0 THEN c \div 2 ELSE 0 - ((0 - c) \div 2)

\* b.current after Backoff()
BackoffValue(c, mn, mx) ==
    IF c = 0
       THEN mn
       ELSE LET d == WrapDuration(c * 2)
            IN  IF d > mx THEN mx ELSE d

\* b.current after Recover()
RecoverValue(c, mn) ==
    LET h == HalfDuration(c)
    IN  IF h < mn THEN 0 ELSE h

\* NewBackoff(minBackoff, maxBackoff): no validation, current and timer zero
NewBackoff(minBackoff, maxBackoff) ==
    /\ min = minBackoff
    /\ max = maxBackoff
    /\ current = 0
    /\ timer = "nil"
    /\ timerDur = 0
    /\ timerC = "empty"
    /\ bpc = "idle"
    /\ bctx = "none"
    /\ bret = "none"
    /\ bop = "none"
    /\ prevCurrent = 0
    /\ recv = "none"

\* the program under study creates one Backoff; whether a timer channel
\* keeps a tick across Stop and Reset is fixed by the Go version it is built with
BackoffInit ==
    /\ NewContextGroup
    /\ NoTokenBucket
    /\ asyncTimerChan \in BOOLEAN
    /\ \E mn \in Durations, mx \in Durations : NewBackoff(mn, mx)

\* the owner is between calls and no panic has ended the program
BackoffIdle == bpc = "idle" /\ bret # "panic"

\* what the methods of a Backoff leave alone
groupFrame == <<groupVars, procVars, histVars, bucketVars>>

\* Backoff()
Backoff ==
    /\ BackoffIdle
    /\ current' = BackoffValue(current, min, max)
    /\ bop' = "Backoff"
    /\ prevCurrent' = current
    /\ bret' = "none"
    /\ recv' = "none"
    /\ UNCHANGED <<min, max, timer, timerDur, timerC, asyncTimerChan, bpc, bctx>>
    /\ UNCHANGED groupFrame

\* mutant of Recover: halves but never resets to zero
RecoverNoReset ==
    /\ BackoffIdle
    /\ current' = HalfDuration(current)
    /\ bop' = "Recover"
    /\ prevCurrent' = current
    /\ bret' = "none"
    /\ recv' = "none"
    /\ UNCHANGED <<min, max, timer, timerDur, timerC, asyncTimerChan, bpc, bctx>>
    /\ UNCHANGED groupFrame

\* Recover()
Recover ==
    /\ BackoffIdle
    /\ current' = RecoverValue(current, min)
    /\ bop' = "Recover"
    /\ prevCurrent' = current
    /\ bret' = "none"
    /\ recv' = "none"
    /\ UNCHANGED <<min, max, timer, timerDur, timerC, asyncTimerChan, bpc, bctx>>
    /\ UNCHANGED groupFrame

\* time.NewTimer(d) on a nil timer, b.timer.Reset(d) otherwise.  A buffered
\* timer channel keeps the tick of an earlier arming across Reset.
ArmTimer(d) ==
    /\ timer' = "armed"
    /\ timerDur' = d
    /\ timerC' = IF timer = "nil" \/ ~asyncTimerChan
                    THEN "empty"
                    ELSE IF timerC = "empty" THEN "empty" ELSE "stale"

\* mutant of WaitContext: looks at the context before looking at b.current
BackoffWaitContextCtxFirst(k) ==
    /\ BackoffIdle
    /\ bop' = "WaitContext"
    /\ prevCurrent' = current
    /\ bctx' = k
    /\ recv' = "none"
    /\ IF k \in {"canceled", "expired"}
          THEN /\ bret' = CtxErr(k)
               /\ UNCHANGED <<timer, timerDur, timerC, bpc>>
          ELSE IF current = 0
                  THEN /\ bret' = "nil"
                       /\ UNCHANGED <<timer, timerDur, timerC, bpc>>
                  ELSE IF current < 0
                          THEN /\ bret' = "panic"
                               /\ UNCHANGED <<timer, timerDur, timerC, bpc>>
                          ELSE /\ \E waitTime \in 0..(current - 1) : ArmTimer(waitTime)
                               /\ bpc' = "select"
                               /\ bret' = "none"
    /\ UNCHANGED <<min, max, current, asyncTimerChan>>
    /\ UNCHANGED groupFrame

\* WaitContext(ctx) up to its select, with ctx in state k: returns at once
\* when b.current is zero; rand.N panics on a negative b.current
BackoffWaitContext(k) ==
    /\ BackoffIdle
    /\ bop' = "WaitContext"
    /\ prevCurrent' = current
    /\ bctx' = k
    /\ recv' = "none"
    /\ IF current = 0
          THEN /\ bret' = "nil"
               /\ UNCHANGED <<timer, timerDur, timerC, bpc>>
          ELSE IF current < 0
                  THEN /\ bret' = "panic"
                       /\ UNCHANGED <<timer, timerDur, timerC, bpc>>
                  ELSE /\ \E waitTime \in 0..(current - 1) : ArmTimer(waitTime)
                       /\ bpc' = "select"
                       /\ bret' = "none"
    /\ UNCHANGED <<min, max, current, asyncTimerChan>>
    /\ UNCHANGED groupFrame

\* Wait(): WaitContext(context.Background())
BackoffWait == BackoffWaitContext("background")

\* the armed timer expires: the runtime sends a tick without blocking, so
\* the tick is dropped when the channel still holds one
BackoffTimerFire ==
    /\ timer = "armed"
    /\ timer' = "fired"
    /\ timerC' = IF timerC = "empty" THEN "fresh" ELSE timerC
    /\ UNCHANGED <<min, max, current, timerDur, asyncTimerChan, bpc, bctx, bret,
                   bop, prevCurrent, recv>>
    /\ UNCHANGED groupFrame

\* the caller's context is cancelled or passes its deadline during the wait
BackoffCtxDone ==
    /\ bpc = "select"
    /\ bctx = "live"
    /\ \E k \in {"canceled", "expired"} : bctx' = k
    /\ UNCHANGED <<min, max, current, timer, timerDur, timerC, asyncTimerChan,
                   bpc, bret, bop, prevCurrent, recv>>
    /\ UNCHANGED groupFrame

\* the deferred b.timer.Stop(): disarms the timer; only an unbuffered timer
\* channel is guaranteed to be empty afterwards
StopTimer(c) ==
    /\ timer' = IF timer = "armed" THEN "stopped" ELSE timer
    /\ timerDur' = 0
    /\ timerC' = IF asyncTimerChan THEN c ELSE "empty"

\* the select of WaitContext, one of its ready cases, then the deferred Stop
BackoffSelect ==
    /\ bpc = "select"
    /\ \/ /\ bctx \in {"canceled", "expired"}
          /\ bret' = CtxErr(bctx)
          /\ recv' = "none"
          /\ StopTimer(timerC)
       \/ /\ timerC # "empty"
          /\ bret' = "nil"
          /\ recv' = timerC
          /\ StopTimer("empty")
    /\ bpc' = "idle"
    /\ UNCHANGED <<min, max, current, asyncTimerChan, bctx, bop, prevCurrent>>
    /\ UNCHANGED groupFrame

BackoffNext ==
    \/ Backoff
    \/ Recover
    \/ BackoffWait
    \/ \E k \in {"live", "canceled", "expired"} : BackoffWaitContext(k)
    \/ BackoffTimerFire
    \/ BackoffCtxDone
    \/ BackoffSelect

BackoffSpec == BackoffInit /\ [][BackoffNext]_vars

(* ---------------------------- TokenBucket ----------------------------- *)

\* tb.refillDuration in ticks of the clock
RefillTicks == 2
\* largest amount passed to Take, in either sign, and largest maxTokens
MaxAmount == 2
\* the clock runs from 0 to MaxTime
MaxTime == 3
\* Take calls explored in one run
MaxTakes == 3
\* the amounts passed to Take: the code accepts any float64
Amounts == (0 - MaxAmount)..MaxAmount
\* the refill rates explored: whole multiples of RefillTicks, so that every
\* float64 the code computes is a small integer and its arithmetic is exact
Rates == {0, RefillTicks}

\* refills * tb.refillRate, refills being the float64 quotient
\* float64(elapsed) / float64(tb.refillDuration)
Replenishment(elapsed) == (elapsed * refillRate) \div RefillTicks

\* NewTokenBucket(maxTokens, refillRate, refillDuration): a full bucket
NewTokenBucket(mt, rr) ==
    /\ tokens = mt
    /\ maxTokens = mt
    /\ refillRate = rr
    /\ lastRefill = 0
    /\ clock = 0
    /\ mux = 0
    /\ tpc = [p \in Procs |-> "idle"]
    /\ amount = [p \in Procs |-> 0]
    /\ took = "none"
    /\ taker = 0
    /\ refilled = [p \in Procs |-> 0]
    /\ takes = 0
    /\ withdrawn = 0
    /\ replenished = 0

\* the program under study creates one TokenBucket
BucketInit ==
    /\ NewContextGroup
    /\ NoBackoff
    /\ \E mt \in 1..MaxAmount, rr \in Rates : NewTokenBucket(mt, rr)

\* what the methods of a TokenBucket leave alone
bucketFrame == <<groupVars, procVars, histVars, backoffVars>>

\* time passes
Tick ==
    /\ clock < MaxTime
    /\ \E d \in 1..(MaxTime - clock) : clock' = clock + d
    /\ UNCHANGED <<tokens, maxTokens, refillRate, lastRefill, mux, tpc, amount,
                   took, taker, refilled, takes, withdrawn, replenished>>
    /\ UNCHANGED bucketFrame

\* mutant of tb.mux.Lock(): the lock is granted while another goroutine holds it
TakeLockNoMutex(p) ==
    /\ tpc[p] = "idle"
    /\ takes < MaxTakes
    /\ mux' = p
    /\ \E a \in Amounts : amount' = [amount EXCEPT ![p] = a]
    /\ tpc' = [tpc EXCEPT ![p] = "locked"]
    /\ takes' = takes + 1
    /\ UNCHANGED <<tokens, maxTokens, refillRate, lastRefill, clock, took, taker,
                   refilled, withdrawn, replenished>>
    /\ UNCHANGED bucketFrame

\* Take(amount): tb.mux.Lock(), granted when no goroutine holds the mutex
TakeLock(p) ==
    /\ tpc[p] = "idle"
    /\ takes < MaxTakes
    /\ mux = 0
    /\ mux' = p
    /\ \E a \in Amounts : amount' = [amount EXCEPT ![p] = a]
    /\ tpc' = [tpc EXCEPT ![p] = "locked"]
    /\ takes' = takes + 1
    /\ UNCHANGED <<tokens, maxTokens, refillRate, lastRefill, clock, took, taker,
                   refilled, withdrawn, replenished>>
    /\ UNCHANGED bucketFrame

\* the replenishment: now, elapsed, refills, tb.tokens +=, tb.lastRefill = now,
\* and the cap at tb.maxTokens
TakeRefill(p) ==
    /\ tpc[p] = "locked"
    /\ LET now == clock
           elapsed == now - lastRefill
           sum == tokens + Replenishment(elapsed)
           capped == IF sum > maxTokens THEN maxTokens ELSE sum
       IN  /\ tokens' = capped
           /\ lastRefill' = now
           /\ replenished' = replenished + Replenishment(elapsed)
           /\ refilled' = [refilled EXCEPT ![p] = capped]
    /\ tpc' = [tpc EXCEPT ![p] = "check"]
    /\ UNCHANGED <<maxTokens, refillRate, clock, mux, amount, took, taker, takes,
                   withdrawn>>
    /\ UNCHANGED bucketFrame

\* mutant of the check: a Take that fails empties the bucket
TakeCheckDrains(p) ==
    /\ tpc[p] = "check"
    /\ IF tokens >= amount[p]
          THEN /\ tpc' = [tpc EXCEPT ![p] = "withdraw"]
               /\ UNCHANGED <<tokens, mux, amount, took, taker, refilled>>
          ELSE /\ tpc' = [tpc EXCEPT ![p] = "idle"]
               /\ took' = "false"
               /\ taker' = p
               /\ amount' = [amount EXCEPT ![p] = 0]
               /\ refilled' = [refilled EXCEPT ![p] = 0]
               /\ tokens' = 0
               /\ mux' = 0
    /\ UNCHANGED <<maxTokens, refillRate, lastRefill, clock, takes,
                   withdrawn, replenished>>
    /\ UNCHANGED bucketFrame

\* if tb.tokens >= amount; otherwise return false, with the deferred Unlock
TakeCheck(p) ==
    /\ tpc[p] = "check"
    /\ IF tokens >= amount[p]
          THEN /\ tpc' = [tpc EXCEPT ![p] = "withdraw"]
               /\ UNCHANGED <<mux, amount, took, taker, refilled>>
          ELSE /\ tpc' = [tpc EXCEPT ![p] = "idle"]
               /\ took' = "false"
               /\ taker' = p
               /\ amount' = [amount EXCEPT ![p] = 0]
               /\ refilled' = [refilled EXCEPT ![p] = 0]
               /\ mux' = 0
    /\ UNCHANGED <<tokens, maxTokens, refillRate, lastRefill, clock, takes,
                   withdrawn, replenished>>
    /\ UNCHANGED bucketFrame

\* tb.tokens -= amount; return true, with the deferred Unlock
TakeWithdraw(p) ==
    /\ tpc[p] = "withdraw"
    /\ tokens' = tokens - amount[p]
    /\ withdrawn' = withdrawn + amount[p]
    /\ tpc' = [tpc EXCEPT ![p] = "idle"]
    /\ took' = "true"
    /\ taker' = p
    /\ amount' = [amount EXCEPT ![p] = 0]
    /\ refilled' = [refilled EXCEPT ![p] = 0]
    /\ mux' = 0
    /\ UNCHANGED <<maxTokens, refillRate, lastRefill, clock, takes, replenished>>
    /\ UNCHANGED bucketFrame

BucketNext ==
    \/ Tick
    \/ \E p \in Procs : TakeLock(p)
    \/ \E p \in Procs : TakeRefill(p)
    \/ \E p \in Procs : TakeCheck(p)
    \/ \E p \in Procs : TakeWithdraw(p)

BucketSpec == BucketInit /\ [][BucketNext]_vars

(* ------------------------------ claims -------------------------------- *)

\* client p has returned from a call of method m
Returned(p, m) == op[p] = m /\ pc[p] = "idle" /\ ret[p] # "panic"

\* client p is blocked in (or about to return from) a call of method m
Blocked(p, m) == op[p] = m /\ pc[p] \in {"select", "closeRecv"}

\* the program was ended by a panic raised in a client's own call
CallerPanicked ==
    crash \in {AddAfterShutdown, "sync: negative WaitGroup counter", "sync: WaitGroup misuse"}

\* C1: no waiter is released early: a Wait(), a Close() or a WaitContext /
\* WaitTimeout that returned nil has returned only after tracking was started
\* and the counter was zero at or after that moment.
C1_NoEarlyRelease ==
    \A p \in Procs :
        (/\ op[p] \in {"Wait", "WaitContext", "WaitTimeout", "Close"}
         /\ pc[p] = "idle"
         /\ ret[p] = "nil")
        => (initDone /\ zeroSeen /\ shutdown = "closed")

\* C1 witness: Init ran on a positive counter, the counter came down to zero
\* and a Wait() has returned.
C1_Witness ==
    \E p \in Procs : Returned(p, "Wait") /\ initAtPositive /\ zeroSeen /\ counter = 0

\* C2 (as claimed): after Init() on a non-zero counter, once the counter has
\* reached zero the completion signal is eventually closed, and every
\* goroutine blocked in Wait, WaitContext, WaitTimeout or Close eventually
\* returns (unless a client's own call panicked).
C2_BroadcastRelease ==
    /\ (initAtPositive /\ zeroSeen) ~> (shutdown = "closed" \/ CallerPanicked)
    /\ \A p \in Procs :
        (initAtPositive /\ zeroSeen /\ pc[p] \in {"select", "closeRecv"})
            ~> (pc[p] = "idle" \/ CallerPanicked)

\* C3 (as claimed): an Add called once the counter has reached zero with
\* tracking started aborts, whatever its delta, and leaves the counter alone.
C3_AddAfterZeroAborts ==
    [][ \A p \in Procs :
          (Add(p) /\ initAtPositive /\ zeroSeen)
          => (crash' = AddAfterShutdown /\ pc'[p] = "idle" /\ counter' = counter) ]_vars

\* C4: Cancel is idempotent: the shared context goes from live to done once
\* and never back, and a Cancel() (or the cancel of Close()) on an already
\* cancelled group leaves the group exactly as the first call left it.
C4_CancelIdempotent ==
    [][ /\ (ctxDone => ctxDone')
        /\ cancelFires' <= 1
        /\ (ctxDone' <=> cancelFires' = 1)
        /\ \A p \in Procs :
              (ctxDone /\ (Cancel(p) \/ Close(p))) => UNCHANGED <<groupVars, cancelFires>> ]_vars

\* C4 witness: two clients have both cancelled the group, one of them
\* through Cancel(), and the context fired once.
C4_Witness ==
    \E p, q \in Procs :
        /\ p # q
        /\ Returned(p, "Cancel")
        /\ op[q] \in {"Cancel", "Close"}
        /\ ctxDone
        /\ cancelFires = 1

\* C5: Cancel() changes the cancellation state only: the counter, the
\* WaitGroup's waiters, the Once, the shutdown channel and the tracker are
\* untouched and no blocked waiter is released by it.
C5_CancelFrame ==
    [][ \A p \in Procs :
          Cancel(p) =>
            /\ UNCHANGED <<counter, waiters, sema, initDone, shutdown, tracker, crash>>
            /\ \A q \in Procs : pc'[q] = pc[q] ]_vars

\* C5 witness: a cancelled group whose counter is positive is not completed
\* and a Wait() on it is still blocked.
C5_Witness ==
    \E p, q \in Procs :
        /\ Returned(p, "Cancel")
        /\ Blocked(q, "Wait")
        /\ ctxDone
        /\ initDone
        /\ counter > 0
        /\ shutdown = "open"

\* the select of client p's WaitContext returns in this step
SelectReturns(p) == pc[p] = "select" /\ pc'[p] = "idle"

\* C6 (as claimed): a WaitContext whose context was already past its
\* deadline at the call returns the deadline error, in every state of the
\* group, completion fired or not.
C6_ExpiredAlwaysDeadline ==
    [][ \A p \in Procs :
          (SelectReturns(p) /\ waitCtx[p] = "expired") => ret'[p] = "DeadlineExceeded" ]_vars

\* C6 (amended): a WaitContext whose context was already past its deadline at
\* the call never blocks; it returns the deadline error whenever the
\* completion signal has not fired, and nil or the deadline error when it has.
C6_ExpiredNeverBlocks ==
    /\ [](\A p \in Procs :
            (Running /\ pc[p] = "select" /\ waitCtx[p] = "expired")
            => ENABLED WaitContextSelect(p))
    /\ [][ \A p \in Procs :
             (SelectReturns(p) /\ waitCtx[p] = "expired")
             => \/ ret'[p] = "DeadlineExceeded"
                \/ (shutdown = "closed" /\ ret'[p] = "nil") ]_vars

\* C6 witness: a call made with an expired context has returned the deadline
\* error while the counter is positive and the signal has not fired.
C6_Witness ==
    \E p \in Procs :
        /\ op[p] \in {"WaitContext", "WaitTimeout"}
        /\ pc[p] = "idle"
        /\ ret[p] = "DeadlineExceeded"
        /\ counter > 0
        /\ shutdown = "open"

\* C7: Close() cancels before it blocks, and when it has returned the shared
\* context is cancelled, the completion signal has fired (the counter was
\* zero after tracking started) and the error is nil.
C7_CloseCancelsThenWaits ==
    \A p \in Procs :
        /\ (pc[p] = "closeRecv" => ctxDone)
        /\ (op[p] = "Close" /\ pc[p] = "idle")
            => (ctxDone /\ shutdown = "closed" /\ zeroSeen /\ ret[p] = "nil")

\* C7 witness: a Close() has returned.
C7_Witness ==
    \E p \in Procs : Returned(p, "Close") /\ ret[p] = "nil"

\* C8 (as claimed): Wait() and Close() themselves make sure tracking has
\* started: a goroutine is never inside Wait() or Close(), past the entry,
\* on a group whose tracking has not been started.
C8_WaitStartsTracking ==
    \A p \in Procs : (Blocked(p, "Wait") \/ Blocked(p, "Close")) => initDone

\* C8 (amended): Wait() and Close() never start tracking; only Init() does,
\* once, however many goroutines call it; a Wait() or Close() that has
\* returned did so on a group some Init() call had started tracking on.
C8_OnlyInitStartsTracking ==
    [][ /\ (initDone' # initDone \/ spawns' # spawns \/ tracker' # tracker)
            => /\ \A p \in Procs :
                    ~(Wait(p) \/ Close(p) \/ WaitContextSelect(p) \/ CloseRecv(p))
               /\ (initDone' # initDone \/ spawns' # spawns)
                    => \E p \in Procs : InitOnce(p)
        /\ spawns' <= 1
        /\ (initDone' <=> spawns' = 1)
        /\ \A p \in Procs :
              (pc'[p] = "idle" /\ (Blocked(p, "Wait") \/ Blocked(p, "Close"))) => initDone ]_vars

\* C8 witness: a Wait() is blocked on a group whose counter is zero and on
\* which nobody has called Init().
C8_Witness ==
    \E p \in Procs : Blocked(p, "Wait") /\ counter = 0 /\ ~initDone /\ spawns = 0

\* C9: as long as Init() has not been called the completion signal is not
\* closed: no Wait() and no Close() has returned, and a WaitContext or
\* WaitTimeout that has returned gave its context's error.
C9_NoInitNoRelease ==
    ~initDone =>
        /\ shutdown = "open"
        /\ closes = 0
        /\ tracker = "none"
        /\ \A p \in Procs :
            /\ ~Returned(p, "Wait")
            /\ ~Returned(p, "Close")
            /\ (Returned(p, "WaitContext") \/ Returned(p, "WaitTimeout"))
                => ret[p] \in {"Canceled", "DeadlineExceeded"}

\* C9 witness: with Init() never called and the counter back at zero after
\* an Add and a Done, a Close() is still blocked.
C9_Witness ==
    \E p, q \in Procs :
        /\ ~initDone
        /\ counter = 0
        /\ ctxDone
        /\ Blocked(p, "Close")
        /\ Returned(q, "Done")

\* C10 (as claimed): in every state of a running group (here: one whose
\* Init() was called on a positive counter) Done() and Add(-1) agree: both abort, or both take the counter down by exactly one.
C10_DoneIsAddMinusOne ==
    (Running /\ initAtPositive) =>
        LET a == AddEffect(0 - 1)
            d == DoneEffect
        IN  /\ (a.panic = "none") <=> (d.panic = "none")
            /\ (a.panic = "none") => (a.counter = counter - 1 /\ d.counter = counter - 1)

\* C17: completion tracking starts at most once and the shutdown channel is
\* closed at most once: however many Init() calls there were, exactly one
\* NotifyShutdown goroutine was started once the Once has run, none before,
\* and close(done) has run at most once, by that goroutine.
C17_OneTrackerOneClose ==
    /\ spawns <= 1
    /\ closes <= 1
    /\ initDone <=> (spawns = 1)
    /\ (closes = 1) <=> (tracker = "exited")
    /\ (closes = 1) <=> (shutdown = "closed")

\* C17 witness: two goroutines have both returned from Init() and the
\* shutdown channel has been closed.
C17_Witness ==
    \E p, q \in Procs :
        /\ p # q
        /\ Returned(p, "Init")
        /\ Returned(q, "Init")
        /\ spawns = 1
        /\ closes = 1

\* C18 (as claimed): in every state in which the shutdown channel is closed
\* the counter is zero (here for a group whose Init() was called on a
\* positive counter).
C18_ClosedImpliesZero ==
    (initAtPositive /\ shutdown = "closed") => counter = 0


\* the smaller of two durations
Smaller(a, b) == IF a <= b THEN a ELSE b

\* C11 (as claimed): for a Backoff built with 0 < min <= max, a Backoff()
\* call at current = 0 leaves current = min, and a call at any other
\* current leaves min(2*current, max), so that current never goes down.
C11_BackoffDoublesCapped ==
    (bop = "Backoff" /\ 0 < min /\ min <= max) =>
        /\ current = IF prevCurrent = 0 THEN min
                                        ELSE Smaller(2 * prevCurrent, max)
        /\ current >= prevCurrent

\* half of c, rounded toward zero, stated without the division
Halved(c) ==
    CHOOSE h \in (0 - DurMod)..DurMod :
        IF c >= 0 THEN 2 * h <= c /\ c < 2 * h + 2
                  ELSE 2 * h >= c /\ c > 2 * h - 2

RECURSIVE RecoverTimes(_, _, _)
\* b.current after n Recover() calls in a row
RecoverTimes(c, mn, n) == IF n = 0 THEN c ELSE RecoverTimes(RecoverValue(c, mn), mn, n - 1)

\* C12 (as claimed): every Recover() call strictly decreases current.
C12_RecoverStrictlyDecreases ==
    bop = "Recover" => current < prevCurrent

\* C12 (amended): Recover() leaves half of current, or exactly zero when that
\* half is below min; it strictly decreases a positive current, leaves a zero
\* current at zero (and takes a negative one to zero); from every reachable
\* current, DurBits Recover() calls in a row end at exactly zero.
C12_RecoverHalvesOrZero ==
    /\ bop = "Recover" =>
        /\ current = IF Halved(prevCurrent) < min THEN 0 ELSE Halved(prevCurrent)
        /\ prevCurrent > 0 => current < prevCurrent
        /\ prevCurrent <= 0 => current = 0
    /\ RecoverTimes(current, min, DurBits) = 0

\* C12 witness: a Recover() between Backoff() calls halved a positive current
\* to a value still at or above min.
C12_Witness ==
    /\ bop = "Recover"
    /\ prevCurrent > 0
    /\ 0 < current
    /\ current < prevCurrent
    /\ current >= min

\* C13: a WaitContext(ctx) or Wait() entered with current = 0 returns nil in
\* that very step, whatever the state of ctx, and leaves the timer as it was:
\* not armed, not created, its channel untouched.
C13_ZeroCurrentReturnsNil ==
    [][(BackoffIdle /\ current = 0 /\ bop' = "WaitContext")
          => /\ bret' = "nil"
             /\ bpc' = "idle"
             /\ bctx' \in {"background", "live", "canceled", "expired"}
             /\ UNCHANGED <<timer, timerDur, timerC, current>>]_vars

\* C13 witness: a WaitContext entered with current = 0 and a context that was
\* already done has returned nil, and no timer has ever been created.
C13_Witness ==
    /\ bop = "WaitContext"
    /\ prevCurrent = 0
    /\ bctx \in {"canceled", "expired"}
    /\ bret = "nil"
    /\ bpc = "idle"
    /\ timer = "nil"

\* C19 (as claimed): a WaitContext entered with current > 0 arms the timer
\* with a duration in [0, current); once it has returned, an error is the
\* error of a context that is done, nil was returned on the tick of the timer
\* armed by this call, and the timer is not armed.
C19_NilOnlyOnOwnTimer ==
    (bop = "WaitContext" /\ prevCurrent > 0) =>
        /\ bpc = "select" => (timer = "armed" => timerDur \in 0..(current - 1))
        /\ bpc = "idle" =>
            /\ bret \in {"nil", "Canceled", "DeadlineExceeded"}
            /\ bret # "nil" => (bctx \in {"canceled", "expired"} /\ bret = CtxErr(bctx))
            /\ bret = "nil" => recv = "fresh"
            /\ timer \in {"stopped", "fired"}

\* C20 (as claimed): for a Backoff built with 0 < min <= max, current is
\* exactly 0 or lies in [min, max] after any sequence of Backoff() and
\* Recover() calls.
C20_CurrentInRange ==
    (0 < min /\ min <= max) =>
        (current = 0 \/ (min <= current /\ current <= max))

\* C14 (as claimed): whenever no Take is in progress, 0 <= tokens <= maxTokens.
C14_TokensInBounds ==
    mux = 0 => (0 <= tokens /\ tokens <= maxTokens)

\* C15: the replenishment of a Take leaves tokens at
\* r = min(maxTokens, tokens + elapsed/refillPeriod*refillRate) and lastRefill
\* at now; the Take then returns true leaving tokens = r - amount exactly when
\* r >= amount, and otherwise returns false leaving tokens = r.
C15_TakeReplenishesThenWithdraws ==
    [][\A p \in Procs :
        /\ (tpc[p] = "locked" /\ tpc'[p] = "check") =>
            /\ tokens' = Smaller(maxTokens,
                                 tokens + ((clock - lastRefill) * refillRate) \div RefillTicks)
            /\ lastRefill' = clock
            /\ refilled'[p] = tokens'
        /\ (tpc[p] = "check" /\ tpc'[p] = "withdraw") =>
            /\ tokens = refilled[p]
            /\ UNCHANGED <<tokens, lastRefill>>
        /\ (tpc[p] # "idle" /\ tpc'[p] = "idle") =>
            /\ UNCHANGED lastRefill
            /\ IF refilled[p] >= amount[p]
                  THEN took' = "true" /\ tokens' = refilled[p] - amount[p]
                  ELSE took' = "false" /\ tokens' = refilled[p]]_vars

\* C15 witness: after the initial tokens were all withdrawn and time passed,
\* a Take has failed: the bucket holds the replenishment, short of the amount
\* asked for, and lastRefill is the present time.
C15_Witness ==
    /\ mux = 0
    /\ took = "false"
    /\ withdrawn = maxTokens
    /\ replenished > 0
    /\ 0 < tokens
    /\ tokens < maxTokens
    /\ lastRefill = clock
    /\ lastRefill > 0

\* C16: Take calls of concurrent goroutines never overlap: at most one
\* goroutine is between Lock and Unlock, it is the holder of the mutex, the
\* tokens it checks and withdraws from are the ones its own replenishment
\* left, and the total withdrawn never exceeds the initial tokens plus the
\* tokens replenished.
C16_TakeAtomic ==
    /\ Cardinality({p \in Procs : tpc[p] # "idle"}) <= 1
    /\ \A p \in Procs : (tpc[p] # "idle") <=> (mux = p)
    /\ \A p \in Procs : tpc[p] \in {"check", "withdraw"} => tokens = refilled[p]
    /\ \A p \in Procs : tpc[p] = "withdraw" => tokens >= amount[p]
    /\ withdrawn <= maxTokens + replenished

\* C16 witness: a goroutine is about to withdraw, right after another
\* goroutine's Take returned, tokens beyond the initial ones.
C16_Witness ==
    \E p \in Procs :
        /\ tpc[p] = "withdraw"
        /\ taker \notin {0, p}
        /\ amount[p] > 0
        /\ withdrawn + amount[p] > maxTokens
        /\ replenished > 0

=============================================================================
